---------------------------- MODULE Spec2Model ----------------------------
(***************************************************************************)
(* Model of scripts/2026_gasspeicher_deutschland.py: the gas storage       *)
(* projection batch (fetch with cache fallback, CSV normalisation,         *)
(* projection engine, ledger append, README block update, main).           *)
(*                                                                         *)
(* Numbers.  Python floats are binary floating point numbers.  The model   *)
(* keeps that: a float is an integer count of ticks of 2^-MinExpBits       *)
(* whose significand has at most MantissaBits bits, and every arithmetic   *)
(* result is rounded to the nearest such number, ties to even (IEEE 754    *)
(* with 53 bits in the program; fewer bits here).                          *)
(***************************************************************************)
EXTENDS Integers, Sequences, FiniteSets, TLC

VARIABLES
    cache,      \* data/bnetza_cache.csv: NoFile or the text it holds
    ledger,     \* data/projections.csv: NoFile or a CSV table (text cells)
    readme,     \* README.md: NoFile or its text
    pc,         \* position of the running main(), or "idle"
    args,       \* the parsed command line of the run
    locals,     \* main()'s locals: csv_text, source_mode, delta_frame, row
    now,        \* the clock: one tick per process start
    call,       \* the latest call of a function checked on its own
    ret,        \* what that call returned or raised
    hist        \* history of the run (ghost): what was appended, fetched

vars == <<cache, ledger, readme, pc, args, locals, now, call, ret, hist>>

-----------------------------------------------------------------------------
(* Bounds of the model *)

MantissaBits == 5     \* significand width of the modelled floats
MinExpBits == 10      \* one tick is 2^-MinExpBits

-----------------------------------------------------------------------------
(* Floating point arithmetic *)

RECURSIVE Pow(_, _)
Pow(b, n) == IF n = 0 THEN 1 ELSE b * Pow(b, n - 1)

Tick == Pow(2, MinExpBits)

Abs(x) == IF x < 0 THEN -x ELSE x

Sign(x) == IF x < 0 THEN -1 ELSE 1

\* a / b (a >= 0, b > 0) rounded to the nearest integer, ties to even
RoundHalfEven(a, b) ==
    LET f == a \div b
        r == a % b
    IN  IF 2 * r < b THEN f
        ELSE IF 2 * r > b THEN f + 1
        ELSE IF f % 2 = 0 THEN f ELSE f + 1

\* the spacing of the floats around num / den ticks (a power of two, >= 1 tick)
RECURSIVE Ulp(_, _, _)
Ulp(num, den, u) ==
    IF num < Pow(2, MantissaBits) * u * den THEN u ELSE Ulp(num, den, 2 * u)

\* the float nearest to num / den ticks (den > 0)
Fl(num, den) ==
    LET a == Abs(num)
        u == Ulp(a, den, 1)
    IN  Sign(num) * u * RoundHalfEven(a, den * u)

FAdd(x, y) == Fl(x + y, 1)
FSub(x, y) == Fl(x - y, 1)
FMul(x, y) == Fl(x * y, Tick)
FDiv(x, y) == Fl(Sign(y) * x * Tick, Abs(y))

\* float(literal) for a decimal literal given in tenths: 0.2 is FromTenths(2)
FromTenths(t) == Fl(t * Tick, 10)

\* round(x, digits) as the decimal it denotes, in units of 10^-digits
RoundDec(x, digits) ==
    LET a == Abs(x)
        q == a \div Tick
        r == a % Tick
        p == Pow(10, digits)
    IN  Sign(x) * (q * p + RoundHalfEven(r * p, Tick))

FromInt(n) == Fl(n * Tick, 1)

-----------------------------------------------------------------------------
(* Text: a string is a sequence of characters.  A character outside ASCII  *)
(* is written by its code point.                                           *)

UmlautSmallU == "U+00FC"
UmlautCapitalU == "U+00DC"
UmlautSmallA == "U+00E4"
UmlautCapitalA == "U+00C4"
CombiningDiaeresis == "U+0308"

NonAscii ==
    {UmlautSmallU, UmlautCapitalU, UmlautSmallA, UmlautCapitalA, CombiningDiaeresis}

UpperCase ==
    <<"A", "B", "C", "D", "E", "F", "G", "H", "I", "J", "K", "L", "M",
      "N", "O", "P", "Q", "R", "S", "T", "U", "V", "W", "X", "Y", "Z">>

LowerCase ==
    <<"a", "b", "c", "d", "e", "f", "g", "h", "i", "j", "k", "l", "m",
      "n", "o", "p", "q", "r", "s", "t", "u", "v", "w", "x", "y", "z">>

\* the pieces of a string put together again
RECURSIVE Joined(_)
Joined(parts) == IF parts = <<>> THEN <<>> ELSE Head(parts) \o Joined(Tail(parts))

\* unicodedata.normalize("NFKD", c): a precomposed letter becomes the base
\* letter followed by the combining mark
Nfkd(c) ==
    CASE c = UmlautSmallU -> <<"u", CombiningDiaeresis>>
      [] c = UmlautCapitalU -> <<"U", CombiningDiaeresis>>
      [] c = UmlautSmallA -> <<"a", CombiningDiaeresis>>
      [] c = UmlautCapitalA -> <<"A", CombiningDiaeresis>>
      [] OTHER -> <<c>>

\* .encode("ascii", "ignore").decode("ascii")
AsciiIgnore(c) == IF c \in NonAscii THEN <<>> ELSE <<c>>

\* .lower()
Lower(c) ==
    IF \E i \in 1..Len(UpperCase) : UpperCase[i] = c
    THEN <<LowerCase[CHOOSE i \in 1..Len(UpperCase) : UpperCase[i] = c]>>
    ELSE <<c>>

\* .replace("%", "pct")
ReplacePct(c) == IF c = "%" THEN <<"p", "c", "t">> ELSE <<c>>

\* "_".join(s.split()): runs of whitespace become one "_", none at the ends
RECURSIVE JoinSplit(_, _, _)
JoinSplit(s, acc, pending) ==
    IF s = <<>> THEN acc
    ELSE IF Head(s) = " "
         THEN JoinSplit(Tail(s), acc, acc # <<>>)
         ELSE JoinSplit(Tail(s),
                        (IF pending THEN Append(acc, "_") ELSE acc) \o <<Head(s)>>,
                        FALSE)

\* a faulty normalisation: the name keeps its case
normalize_column_NoLower(name) ==
    LET normalized == Joined([i \in 1..Len(name) |-> Nfkd(name[i])])
        ascii_name == Joined([i \in 1..Len(normalized) |->
                                 AsciiIgnore(normalized[i])])
        replaced == Joined([i \in 1..Len(ascii_name) |-> ReplacePct(ascii_name[i])])
    IN  JoinSplit(replaced, <<>>, FALSE)

normalize_column(name) ==
    LET normalized == Joined([i \in 1..Len(name) |-> Nfkd(name[i])])
        ascii_name == Joined([i \in 1..Len(normalized) |->
                                 AsciiIgnore(normalized[i])])
        lowered == Joined([i \in 1..Len(ascii_name) |-> Lower(ascii_name[i])])
        replaced == Joined([i \in 1..Len(lowered) |-> ReplacePct(lowered[i])])
    IN  JoinSplit(replaced, <<>>, FALSE)

\* key.startswith(pat)
StartsWith(key, pat) ==
    Len(key) >= Len(pat) /\ SubSeq(key, 1, Len(pat)) = pat

\* pat in key
Contains(key, pat) ==
    \E i \in 1..(Len(key) - Len(pat) + 1) : SubSeq(key, i, i + Len(pat) - 1) = pat

s_fullstand == <<"f", "u", "l", "l", "s", "t", "a", "n", "d">>
s_fill == <<"f", "i", "l", "l">>
s_vortag == <<"v", "o", "r", "t", "a", "g">>
s_veranderung == <<"v", "e", "r", "a", "n", "d", "e", "r", "u", "n", "g">>
s_anderung == <<"a", "n", "d", "e", "r", "u", "n", "g">>
s_previous == <<"p", "r", "e", "v", "i", "o", "u", "s">>
s_change == <<"c", "h", "a", "n", "g", "e">>
s_day == <<"d", "a", "y">>

\* the tests of the two column searches of parse_bnetza_csv
IsFillKey(key) == StartsWith(key, s_fullstand) \/ Contains(key, s_fill)

IsDeltaKey(key) ==
    \/ Contains(key, s_vortag)
       /\ (Contains(key, s_veranderung) \/ Contains(key, s_anderung))
    \/ Contains(key, s_previous) /\ Contains(key, s_change)

-----------------------------------------------------------------------------
(* Headers the source CSV is drawn with *)

h_Datum == <<"D", "a", "t", "u", "m">>
h_Fuellstand_umlaut == <<"F", UmlautSmallU, "l", "l", "s", "t", "a", "n", "d">>
h_FULLSTAND == <<"F", "U", "L", "L", "S", "T", "A", "N", "D">>
h_fuellstand == <<"f", "u", "e", "l", "l", "s", "t", "a", "n", "d">>
h_FillPct == <<"F", "i", "l", "l", " ", "%">>
h_AenderungVortag ==
    <<UmlautCapitalA, "n", "d", "e", "r", "u", "n", "g", " ", " ",
      "V", "o", "r", "t", "a", "g">>
h_ChangePrevious ==
    <<"c", "h", "a", "n", "g", "e", " ", "p", "r", "e", "v", "i", "o", "u", "s">>
h_Trend == <<"T", "r", "e", "n", "d">>

-----------------------------------------------------------------------------
(* parse_bnetza_csv.  The CSV text is its line ending, its header and its  *)
(* rows of cells.  A cell of the first column is a day-first date          *)
(* ("date", day number) or text that is no date ("bad").  Any other cell   *)
(* is a number written with a decimal comma ("dec", in tenths), a whole    *)
(* number ("int"), an empty field ("na") or some other token ("bad").      *)

NaN == [nan |-> TRUE, v |-> 0]

Num(x) == [nan |-> FALSE, v |-> x]

\* pd.read_csv(sep=";", decimal=",") followed by pd.to_numeric(errors="coerce")
\* on one column: read_csv keeps a column holding a non-numeric token as text,
\* and to_numeric then does not know the decimal comma
NumericColumn(cells) ==
    LET as_text == \E i \in 1..Len(cells) : cells[i].k = "bad"
    IN  [i \in 1..Len(cells) |->
            CASE cells[i].k = "dec" ->
                    IF as_text THEN NaN ELSE Num(FromTenths(cells[i].v))
              [] cells[i].k = "int" -> Num(FromInt(cells[i].v))
              [] OTHER -> NaN]

\* frame.columns after the first column is renamed to "day"
FrameColumns(csv) ==
    [i \in 1..Len(csv.header) |-> IF i = 1 THEN s_day ELSE csv.header[i]]

\* col_map = {normalize_column(col): col for col in frame.columns}: a key keeps
\* the place of its first column and the name of its last
RECURSIVE ColMap(_, _, _)
ColMap(columns, i, acc) ==
    IF i > Len(columns) THEN acc
    ELSE LET key == normalize_column(columns[i])
             entry == [key |-> key, original |-> columns[i]]
         IN  IF \E j \in 1..Len(acc) : acc[j].key = key
             THEN ColMap(columns, i + 1,
                         [j \in 1..Len(acc) |->
                             IF acc[j].key = key THEN entry ELSE acc[j]])
             ELSE ColMap(columns, i + 1, Append(acc, entry))

\* for key, original in col_map.items(): if <test>: col = original; break
\* (hits: the positions of col_map whose key passes the test)
FirstMatch(col_map, hits) ==
    IF hits = {} THEN [found |-> FALSE, name |-> <<>>]
    ELSE [found |-> TRUE,
          name |-> col_map[CHOOSE j \in hits : \A k \in hits : j <= k].original]

ColumnIndex(columns, name) == CHOOSE i \in 1..Len(columns) : columns[i] = name

Orderings(n) ==
    {p \in [1..n -> 1..n] : \A i, j \in 1..n : i # j => p[i] # p[j]}

\* a faulty sort: the rows stay in the order of the CSV
SortValuesByDay_AsRead(rows) == {rows}

\* prepared.sort_values("day"): the rows ascending by day; the default sort is
\* not stable, so rows of one day come in any order
SortValuesByDay(rows) ==
    {[i \in 1..Len(rows) |-> rows[p[i]]] : p \in
        {q \in Orderings(Len(rows)) :
            \A i \in 1..(Len(rows) - 1) : rows[q[i]].day <= rows[q[i + 1]].day}}

\* the message of the ValueError for an unresolved column
ColumnsNotFound ==
    "Required columns not found in CSV. Needed fill level and daily change columns."

\* the outcomes of parse_bnetza_csv(csv_text): the error it raises, or the
\* frames it can return; lcl holds the columns the two searches found
parse_bnetza_csv(csv) ==
    LET columns == FrameColumns(csv)
        col_map == ColMap(columns, 1, <<>>)
        fill_col == FirstMatch(col_map,
                               {j \in 1..Len(col_map) : IsFillKey(col_map[j].key)})
        delta_col == FirstMatch(col_map,
                                {j \in 1..Len(col_map) : IsDeltaKey(col_map[j].key)})
        lcl == [fill_col |-> fill_col, delta_col |-> delta_col]
    IN  IF Len(csv.rows) = 0
        THEN {[ok |-> FALSE, error |-> "CSV is empty.", value |-> <<>>,
               lcl |-> [fill_col |-> [found |-> FALSE, name |-> <<>>],
                        delta_col |-> [found |-> FALSE, name |-> <<>>]]]}
        ELSE IF ~fill_col.found \/ ~delta_col.found
        THEN {[ok |-> FALSE, error |-> ColumnsNotFound,
               value |-> <<>>, lcl |-> lcl]}
        ELSE
        LET fi == ColumnIndex(columns, fill_col.name)
            di == ColumnIndex(columns, delta_col.name)
            n == Len(csv.rows)
            fills == NumericColumn([i \in 1..n |-> csv.rows[i][fi]])
            deltas == NumericColumn([i \in 1..n |-> csv.rows[i][di]])
            all_rows == [i \in 1..n |->
                            [date_ok |-> csv.rows[i][1].k = "date",
                             day |-> csv.rows[i][1].v,
                             fill_level_pct |-> fills[i],
                             delta_pct_per_day |-> deltas[i]]]
            HasDay(r) == r.date_ok
            HasFill(r) == ~r.fill_level_pct.nan
            kept == SelectSeq(SelectSeq(all_rows, HasDay), HasFill)
            prepared == [i \in 1..Len(kept) |->
                            [day |-> kept[i].day,
                             fill_level_pct |-> kept[i].fill_level_pct,
                             delta_pct_per_day |-> kept[i].delta_pct_per_day]]
        IN  {[ok |-> TRUE, error |-> "", value |-> f, lcl |-> lcl] :
                f \in SortValuesByDay(prepared)}

-----------------------------------------------------------------------------
(* Values of a projection record and cells of the ledger.                  *)
(* A cell [k, d, v, s] is a string s (k = "str"; "" is the empty value),   *)
(* an ISO date ("date", v the day number), an ISO timestamp ("time", v     *)
(* the clock reading) or the date of one ("date_of"), a whole number v     *)
(* ("int"), or a float ("float"): the decimal v * 10^-d written for it,    *)
(* or with d = -1 the float of v ticks itself.                             *)

Str(s) == [k |-> "str", d |-> 0, v |-> 0, s |-> s]
Empty == Str("")
DateCell(day) == [k |-> "date", d |-> 0, v |-> day, s |-> ""]
TimeCell(t) == [k |-> "time", d |-> 0, v |-> t, s |-> ""]
DateOfCell(t) == [k |-> "date_of", d |-> 0, v |-> t, s |-> ""]
IntCell(n) == [k |-> "int", d |-> 0, v |-> n, s |-> ""]
FloatCell(x) == [k |-> "float", d |-> -1, v |-> x, s |-> ""]

\* round(x, digits)
Rounded(x, digits) ==
    [k |-> "float", d |-> digits, v |-> RoundDec(x, digits), s |-> ""]

\* a dict is the sequence of its items in insertion order
Item(name, cell) == [name |-> name, cell |-> cell]

Keys(dict) == [i \in 1..Len(dict) |-> dict[i].name]

KeySet(dict) == {dict[i].name : i \in 1..Len(dict)}

Get(dict, name) == dict[CHOOSE i \in 1..Len(dict) : dict[i].name = name].cell

URL_A == Str("csv_export.html?view=renderCSV&id=870304")
URL_B == Str("csv_export.html?view=renderCSV&id=870306")

SCENARIOS ==
    <<"optimistic_20pct_lower_withdrawal",
      "smallest_withdrawal",
      "average_withdrawal",
      "largest_withdrawal",
      "pessimistic_20pct_higher_withdrawal">>

-----------------------------------------------------------------------------
(* build_projection_row *)

\* delta_frame.tail(n): iloc[0:0] for n = 0, else iloc[-n:]
DataFrameTail(frame, n) ==
    LET L == Len(frame)
    IN  IF n = 0 THEN <<>>
        ELSE IF n > 0 THEN SubSeq(frame, (IF n >= L THEN 1 ELSE L - n + 1), L)
        ELSE SubSeq(frame, (IF -n >= L THEN L + 1 ELSE -n + 1), L)

SeqMin(s) == CHOOSE x \in {s[i] : i \in 1..Len(s)} : \A i \in 1..Len(s) : x <= s[i]

SeqMax(s) == CHOOSE x \in {s[i] : i \in 1..Len(s)} : \A i \in 1..Len(s) : x >= s[i]

\* the float sum of a short series, added up from the left
RECURSIVE FSum(_)
FSum(s) == IF Len(s) = 1 THEN s[1] ELSE FAdd(FSum(SubSeq(s, 1, Len(s) - 1)), s[Len(s)])

\* rates.mean(): the float sum divided by the count
SeriesMean(s) == FDiv(FSum(s), FromInt(Len(s)))

\* rate_min - abs(rate_min) * 0.2
RateMin20(rate_min) == FSub(rate_min, FMul(Abs(rate_min), FromTenths(2)))

\* rate_max + abs(rate_max) * 0.2
RateMax20(rate_max) == FAdd(rate_max, FMul(Abs(rate_max), FromTenths(2)))

\* scenario_rates, in the order of the OrderedDict
ScenarioRates(rates) ==
    LET rate_min == SeqMin(rates)
        rate_max == SeqMax(rates)
        rate_avg == SeriesMean(rates)
    IN  <<RateMax20(rate_max), rate_max, rate_avg, rate_min, RateMin20(rate_min)>>

\* a faulty days-to-min: the quotient without the floor at 0.0
DaysToMin_NoFloor(current_level, minimum_pct, rate) ==
    FDiv(FSub(current_level, minimum_pct), Abs(rate))

\* max((current_level - minimum_pct) / abs(rate), 0.0)
DaysToMin(current_level, minimum_pct, rate) ==
    LET d == FDiv(FSub(current_level, minimum_pct), Abs(rate))
    IN  IF d > 0 THEN d ELSE 0

\* (last_date + pd.to_timedelta(days_to_min, unit="D")).date()
TargetDate(last_date, days_to_min) == last_date + (days_to_min \div Tick)

\* the three items one pass of the scenario loop puts into the row
ScenarioItems(scenario_key, rate, last_date, current_level, minimum_pct) ==
    LET rate_col == scenario_key \o "_rate_pct_per_day"
        target_col == scenario_key \o "_target_date"
        days_col == scenario_key \o "_days_to_min"
        days_to_min == DaysToMin(current_level, minimum_pct, rate)
    IN  IF rate >= 0
        THEN <<Item(rate_col, Rounded(rate, 6)),
               Item(target_col, Empty),
               Item(days_col, Empty)>>
        ELSE <<Item(rate_col, Rounded(rate, 6)),
               Item(target_col, DateCell(TargetDate(last_date, days_to_min))),
               Item(days_col, Rounded(days_to_min, 3))>>

RaisedIn(error, lcl) == [ok |-> FALSE, error |-> error, value |-> <<>>, lcl |-> lcl]

\* build_projection_row(delta_frame, minimum_pct, lookback_days, source_mode)
\* at clock reading t: the error raised or the row returned, and (lcl) the
\* function's local variables at that point
build_projection_row(delta_frame, minimum_pct, lookback_days, source_mode, t) ==
    IF delta_frame = <<>>
    THEN RaisedIn("No usable rows found after parsing.", [windowed |-> <<>>])
    ELSE
    LET windowed == DataFrameTail(delta_frame, lookback_days)
    IN  IF windowed = <<>>
        THEN RaisedIn("No rows available in requested lookback window.",
                      [windowed |-> windowed])
        ELSE
        LET last == windowed[Len(windowed)]
            last_date == last.day
            current_level == last.fill_level_pct.v
            IsNum(r) == ~r.delta_pct_per_day.nan
            with_rate == SelectSeq(windowed, IsNum)
            rates == [i \in 1..Len(with_rate) |-> with_rate[i].delta_pct_per_day.v]
        IN  IF rates = <<>>
            THEN RaisedIn("No daily change values available to compute projections.",
                          [windowed |-> windowed])
            ELSE
            LET scenario_rates == ScenarioRates(rates)
                head == <<Item("run_timestamp_utc", TimeCell(t)),
                          Item("run_date_berlin", DateOfCell(t)),
                          Item("data_source_mode", Str(source_mode)),
                          Item("source_url_a", URL_A),
                          Item("source_url_b", URL_B),
                          Item("lookback_days", IntCell(lookback_days)),
                          Item("minimum_threshold_pct", FloatCell(minimum_pct)),
                          Item("latest_data_date", DateCell(last_date)),
                          Item("current_fill_level_pct", Rounded(current_level, 4)),
                          Item("rate_min_pct_per_day", Rounded(scenario_rates[4], 6)),
                          Item("rate_avg_pct_per_day", Rounded(scenario_rates[3], 6)),
                          Item("rate_max_pct_per_day", Rounded(scenario_rates[2], 6))>>
                Pass(i) == ScenarioItems(SCENARIOS[i], scenario_rates[i], last_date,
                                         current_level, minimum_pct)
            IN  [ok |-> TRUE, error |-> "",
                 value |-> head \o Pass(1) \o Pass(2) \o Pass(3) \o Pass(4) \o Pass(5),
                 lcl |-> [windowed |-> windowed,
                          last_date |-> last_date,
                          current_level |-> current_level,
                          scenario_rates |-> scenario_rates]]

-----------------------------------------------------------------------------
(* append_projection_row.  The ledger file is absent, empty (size 0) or a  *)
(* CSV table: its header and its rows of cells as written.  A DataFrame    *)
(* is its columns, the dtype of each and its rows of values.               *)

NoFile == [exists |-> FALSE, columns |-> <<>>, rows |-> <<>>]

EmptyFile == [exists |-> TRUE, columns |-> <<>>, rows |-> <<>>]

CsvFile(columns, rows) == [exists |-> TRUE, columns |-> columns, rows |-> rows]

\* a missing value of a DataFrame
NaNCell == [k |-> "nan", d |-> 0, v |-> 0, s |-> ""]

\* the float a whole number becomes in a float64 column: 30 is written 30.0
IntToFloat(c) == [k |-> "float", d |-> 0, v |-> c.v, s |-> ""]

IsText(c) == c.k \in {"str", "date", "time", "date_of"} /\ c # Empty

\* the dtype pd.read_csv infers for a column from its cells
InferDtype(cells) ==
    IF cells = <<>> \/ \E i \in 1..Len(cells) : IsText(cells[i]) THEN "object"
    ELSE IF \A i \in 1..Len(cells) : cells[i].k = "int" THEN "int64"
    ELSE "float64"

\* the value a cell is in a column of that dtype
AsDtype(dtype, c) ==
    IF c = Empty THEN NaNCell
    ELSE IF dtype = "float64" /\ c.k = "int" THEN IntToFloat(c)
    ELSE c

\* the dtype of a column holding one Python value
ValueDtype(c) ==
    IF c.k = "int" THEN "int64" ELSE IF c.k = "float" THEN "float64" ELSE "object"

\* pd.read_csv(projections_path)
ReadCsv(file) ==
    LET ncol == Len(file.columns)
        nrow == Len(file.rows)
        dtypes == [j \in 1..ncol |-> InferDtype([i \in 1..nrow |-> file.rows[i][j]])]
    IN  [columns |-> file.columns,
         dtypes |-> dtypes,
         rows |-> [i \in 1..nrow |->
                      [j \in 1..ncol |-> AsDtype(dtypes[j], file.rows[i][j])]]]

\* pd.DataFrame([row])
RowFrame(row) ==
    [columns |-> Keys(row),
     dtypes |-> [j \in 1..Len(row) |-> ValueDtype(row[j].cell)],
     rows |-> <<[j \in 1..Len(row) |-> row[j].cell]>>]

\* frame[column] = "" for each of the columns, in their order
RECURSIVE WithBlankColumns(_, _)
WithBlankColumns(frame, columns) ==
    IF columns = <<>> THEN frame
    ELSE WithBlankColumns(
            [columns |-> Append(frame.columns, Head(columns)),
             dtypes |-> Append(frame.dtypes, "object"),
             rows |-> [i \in 1..Len(frame.rows) |-> Append(frame.rows[i], Empty)]],
            Tail(columns))

\* the columns of one frame that the other does not have, in their order
MissingFrom(columns, other) ==
    LET Absent(c) == \A j \in 1..Len(other) : other[j] # c
    IN  SelectSeq(columns, Absent)

\* frame[columns]
Reindexed(frame, columns) ==
    LET At(c) == CHOOSE j \in 1..Len(frame.columns) : frame.columns[j] = c
    IN  [columns |-> columns,
         dtypes |-> [j \in 1..Len(columns) |-> frame.dtypes[At(columns[j])]],
         rows |-> [i \in 1..Len(frame.rows) |->
                      [j \in 1..Len(columns) |-> frame.rows[i][At(columns[j])]]]]

\* the dtype of a column of pd.concat of two columns
ConcatDtype(a, b) ==
    IF a = "int64" /\ b = "int64" THEN "int64"
    ELSE IF a \in {"int64", "float64"} /\ b \in {"int64", "float64"} THEN "float64"
    ELSE "object"

\* pd.concat([top, bottom], ignore_index=True) of frames with the same columns
Concat(top, bottom) ==
    LET ncol == Len(top.columns)
        dtypes == [j \in 1..ncol |-> ConcatDtype(top.dtypes[j], bottom.dtypes[j])]
        Cast(row) == [j \in 1..ncol |->
                         IF dtypes[j] = "float64" /\ row[j].k = "int"
                         THEN IntToFloat(row[j]) ELSE row[j]]
        all_rows == top.rows \o bottom.rows
    IN  [columns |-> top.columns,
         dtypes |-> dtypes,
         rows |-> [i \in 1..Len(all_rows) |-> Cast(all_rows[i])]]

\* frame.to_csv(projections_path, index=False): a missing value is written empty
ToCsv(frame) ==
    CsvFile(frame.columns,
            [i \in 1..Len(frame.rows) |->
                [j \in 1..Len(frame.columns) |->
                    IF frame.rows[i][j] = NaNCell THEN Empty ELSE frame.rows[i][j]]])

\* a faulty append: the file is overwritten with the new record alone
append_projection_row_Overwrite(file, row) == ToCsv(RowFrame(row))

\* a faulty append: the rows of the file do not get the columns that only
\* the new record has
append_projection_row_NoFill(file, row) ==
    LET row_frame == RowFrame(row)
    IN  IF file.exists /\ file.columns # <<>>
        THEN LET existing == ReadCsv(file)
                 row_frame2 == WithBlankColumns(row_frame,
                                   MissingFrom(existing.columns, row_frame.columns))
             IN  ToCsv(Concat(existing, Reindexed(row_frame2, existing.columns)))
        ELSE ToCsv(row_frame)

\* append_projection_row(projections_path, row): the file it leaves
append_projection_row(file, row) ==
    LET row_frame == RowFrame(row)
    IN  IF file.exists /\ file.columns # <<>>
        THEN LET existing == ReadCsv(file)
                 row_frame2 == WithBlankColumns(row_frame,
                                   MissingFrom(existing.columns, row_frame.columns))
                 existing2 == WithBlankColumns(existing,
                                   MissingFrom(row_frame2.columns, existing.columns))
                 merged == Concat(existing2, Reindexed(row_frame2, existing2.columns))
             IN  ToCsv(merged)
        ELSE ToCsv(row_frame)

-----------------------------------------------------------------------------
(* fetch_url_b_with_cache.  The cache file is absent or holds a text.      *)

NoText == [eol |-> "", header |-> <<>>, rows |-> <<>>]

NoCache == [exists |-> FALSE, text |-> NoText]

\* cache_path.write_text(text, encoding="utf-8") on a POSIX system: the
\* characters go to the file as they are
WriteText(text) == [exists |-> TRUE, text |-> text]

\* cache_path.read_text(encoding="utf-8"): text mode reads with universal
\* newlines, every line ending comes back as "\n"
ReadText(file) == [file.text EXCEPT !.eol = "LF"]

\* a faulty fetch: the body of a GET that succeeded is not written to the
\* cache file
fetch_url_b_with_cache_NoWrite(cache_file, response) ==
    IF response.ok
    THEN [ok |-> TRUE, error |-> "",
          csv_text |-> response.text, source_mode |-> "network",
          cache |-> cache_file]
    ELSE IF cache_file.exists
         THEN [ok |-> TRUE, error |-> "",
               csv_text |-> ReadText(cache_file), source_mode |-> "cache",
               cache |-> cache_file]
         ELSE [ok |-> FALSE, error |-> "Could not fetch url_b and no cache exists",
               csv_text |-> NoText, source_mode |-> "",
               cache |-> cache_file]

\* fetch_url_b_with_cache(url, cache_path) when requests.get answers with
\* response ([ok, text]; not ok: it raised, also for an HTTP error status):
\* what the call returns or raises, and the cache file it leaves
fetch_url_b_with_cache(cache_file, response) ==
    IF response.ok
    THEN [ok |-> TRUE, error |-> "",
          csv_text |-> response.text, source_mode |-> "network",
          cache |-> WriteText(response.text)]
    ELSE IF cache_file.exists
         THEN [ok |-> TRUE, error |-> "",
               csv_text |-> ReadText(cache_file), source_mode |-> "cache",
               cache |-> cache_file]
         ELSE [ok |-> FALSE, error |-> "Could not fetch url_b and no cache exists",
               csv_text |-> NoText, source_mode |-> "",
               cache |-> cache_file]

-----------------------------------------------------------------------------
(* README update.  A text file is absent or its lines; a line is a piece   *)
(* of text (a format string s with the values put into it), with or        *)
(* without blanks around it.                                               *)

Line(s) == [pad |-> FALSE, s |-> s, cells |-> <<>>]

Padded(s) == [pad |-> TRUE, s |-> s, cells |-> <<>>]

Fmt(s, cells) == [pad |-> FALSE, s |-> s, cells |-> cells]

\* line.strip()
Strip(line) == [line EXCEPT !.pad = FALSE]

PROJECTION_SECTION_HEADING == Line("## Letzte Projektionen")

\* the opening fence line: three backquotes and "text" (a backquote is written
\* as an apostrophe here)
FenceText == Line("'''text")

\* the closing fence line: three backquotes
Fence == Line("'''")

NoReadme == [exists |-> FALSE, eol |-> "", lines |-> <<>>]

\* a text file as read_text().splitlines() sees it: its lines, and (eol) the
\* line terminator the file uses
TextFileEol(eol, lines) == [exists |-> TRUE, eol |-> eol, lines |-> lines]

\* what write_text("\n".join(lines) + "\n") leaves
TextFile(lines) == TextFileEol("LF", lines)

\* rstrip("0").rstrip(".") on a decimal with d digits
RECURSIVE StripZeros(_)
StripZeros(c) ==
    IF c.d > 0 /\ c.v % 10 = 0
    THEN StripZeros([c EXCEPT !.d = c.d - 1, !.v = c.v \div 10])
    ELSE c

\* format_number(value, decimals) for a value of the row: a float of the
\* program is rounded to decimals digits, a value already rounded to no more
\* digits keeps them
format_number(value, decimals) ==
    IF value.d = -1 THEN StripZeros(Rounded(value.v, decimals))
    ELSE StripZeros(value)

NotReached == Str("nicht erreicht (nicht-negative Rate)")

SCENARIO_LABELS ==
    <<"Optimistisch (20% weniger Entnahme)",
      "Kleinste Entnahme",
      "Durchschnittliche Entnahme",
      "Groesste Entnahme",
      "Pessimistisch (20% mehr Entnahme)">>

\* the four lines of one scenario in the block
ScenarioLines(row, i) ==
    LET target == Get(row, SCENARIOS[i] \o "_target_date")
        rate == Get(row, SCENARIOS[i] \o "_rate_pct_per_day")
    IN  <<Fmt("{}", <<IF target # Empty THEN target ELSE NotReached>>),
          Line(SCENARIO_LABELS[i]),
          Fmt("({}%/Tag)", <<format_number(rate, 6)>>),
          Line("")>>

build_projection_block_lines(row) ==
    LET lines ==
            <<FenceText,
              Fmt("Projektion #Gasspeicher DE vom {}", <<Get(row, "run_date_berlin")>>),
              Fmt("Fuellstand {}% am {}",
                  <<format_number(Get(row, "current_fill_level_pct"), 4),
                    Get(row, "latest_data_date")>>),
              Fmt("Kritisches Minimum {}% (Entnahmerate bricht stark ein)",
                  <<format_number(Get(row, "minimum_threshold_pct"), 2)>>),
              Line(""),
              Line("Szenarien - Minimum wird erreicht am:"),
              Line("")>>
            \o ScenarioLines(row, 1) \o ScenarioLines(row, 2) \o ScenarioLines(row, 3)
            \o ScenarioLines(row, 4) \o ScenarioLines(row, 5)
        popped == IF lines[Len(lines)] = Line("")
                  THEN SubSeq(lines, 1, Len(lines) - 1) ELSE lines
    IN  Append(popped, Fence)

\* a faulty search: the last matching line instead of the first
FirstLine_Last(lines, from, what) ==
    LET hits == {i \in from..Len(lines) : Strip(lines[i]) = what}
    IN  IF hits = {} THEN 0 ELSE CHOOSE i \in hits : \A j \in hits : i >= j

\* the first index in from..Len(lines) whose stripped line is what, or 0
FirstLine(lines, from, what) ==
    LET hits == {i \in from..Len(lines) : Strip(lines[i]) = what}
    IN  IF hits = {} THEN 0 ELSE CHOOSE i \in hits : \A j \in hits : i <= j

\* update_readme_projection(readme_path, row): the file it leaves, whether it
\* wrote it, and the warning it printed
update_readme_projection(file, row) ==
    LET skip(warning) == [file |-> file, written |-> FALSE, warning |-> warning]
    IN  IF ~file.exists THEN skip("README not found")
        ELSE
        LET readme_lines == file.lines
            heading_idx == FirstLine(readme_lines, 1, PROJECTION_SECTION_HEADING)
        IN  IF heading_idx = 0 THEN skip("Heading not found")
            ELSE
            LET start_idx == FirstLine(readme_lines, heading_idx + 1, FenceText)
            IN  IF start_idx = 0 THEN skip("Projection code block start not found")
                ELSE
                LET end_idx == FirstLine(readme_lines, start_idx + 1, Fence)
                IN  IF end_idx = 0 THEN skip("Projection code block end not found")
                    ELSE
                    LET new_block == build_projection_block_lines(row)
                        updated == SubSeq(readme_lines, 1, start_idx - 1)
                                   \o new_block
                                   \o SubSeq(readme_lines, end_idx + 1, Len(readme_lines))
                    IN  [file |-> TextFile(updated), written |-> TRUE, warning |-> ""]

-----------------------------------------------------------------------------
(* Inputs of the runs *)

MaxRuns == 2          \* process starts per behaviour

DateOn(day) == [k |-> "date", v |-> day]
BadCell == [k |-> "bad", v |-> 0]
NaCell == [k |-> "na", v |-> 0]
Dec(tenths) == [k |-> "dec", v |-> tenths]
Whole(n) == [k |-> "int", v |-> n]

CsvText(eol, header, rows) == [eol |-> eol, header |-> header, rows |-> rows]

GoodRows ==
    <<<<DateOn(1), Dec(900), Dec(-5)>>,
      <<DateOn(2), Dec(894), Dec(-6)>>>>

\* the bodies the server answers with
SampleBodies ==
    {CsvText("CRLF", <<h_Datum, h_Fuellstand_umlaut, h_AenderungVortag>>, GoodRows),
     CsvText("LF", <<h_Datum, h_FillPct, h_ChangePrevious>>,
             <<<<DateOn(3), Whole(30), Dec(2)>>>>),
     CsvText("LF", <<h_Datum, h_Fuellstand_umlaut, h_AenderungVortag>>, <<>>),
     CsvText("LF", <<h_Datum, h_Fuellstand_umlaut, h_Trend>>, GoodRows),
     CsvText("LF", <<h_Datum, h_fuellstand, h_AenderungVortag>>, GoodRows),
     CsvText("LF", <<h_Datum, h_FULLSTAND, h_AenderungVortag>>,
             <<<<DateOn(1), Dec(900), NaCell>>, <<BadCell, Dec(890), Dec(-5)>>>>)}

\* what requests.get does: it raises, or answers with a body
Responses ==
    {[ok |-> FALSE, text |-> NoText]} \cup {[ok |-> TRUE, text |-> b] : b \in SampleBodies}

\* the command lines of the runs: --minimum (in tenths), --lookback-days,
\* --skip-readme-update
ArgSets ==
    {[minimum |-> 200, lookback_days |-> 30, skip_readme_update |-> FALSE],
     [minimum |-> 950, lookback_days |-> 1, skip_readme_update |-> TRUE],
     [minimum |-> 200, lookback_days |-> 0, skip_readme_update |-> FALSE]}

NoArgs == [minimum |-> 0, lookback_days |-> 0, skip_readme_update |-> FALSE]

GoodReadme ==
    TextFile(<<Line("# Gasspeicher"), PROJECTION_SECTION_HEADING, FenceText,
               Line("alt"), Fence, Line("Quellen")>>)

Readmes ==
    {NoReadme, GoodReadme,
     TextFileEol("CRLF", <<PROJECTION_SECTION_HEADING, FenceText>>)}

-----------------------------------------------------------------------------
(* main *)

NoLocals == [csv_text |-> NoText, source_mode |-> "", delta_frame |-> <<>>, row |-> <<>>]

NoHist ==
    [ledger_at_start |-> NoFile,    \* the ledger when the run started
     steps |-> <<>>,                \* the steps the run has entered, in order
     raised |-> "",                 \* the step of the run that raised
     appended |-> <<>>,             \* every record handed to append_projection_row
     ledger_pre |-> NoFile,         \* the ledger before the latest append
     fetched |-> <<>>,              \* the body of every GET that succeeded
     response |-> [ok |-> FALSE, text |-> NoText],  \* the latest GET
     cache_pre |-> NoCache,         \* the cache before the latest fetch
     readme_pre |-> NoReadme,       \* the README before the latest update
     warning |-> ""]                \* the warning of the latest README update

Init ==
    /\ cache = NoCache
    /\ ledger \in {NoFile, EmptyFile}
    /\ readme \in Readmes
    /\ pc = "idle"
    /\ args = NoArgs
    /\ locals = NoLocals
    /\ now = 0
    /\ call = <<>>
    /\ ret = <<>>
    /\ hist = NoHist

\* the process starts: parse_args()
Start ==
    /\ pc \in {"idle", "done", "failed"}
    /\ now < MaxRuns
    /\ now' = now + 1
    /\ args' \in ArgSets
    /\ locals' = NoLocals
    /\ pc' = "fetch"
    /\ hist' = [hist EXCEPT !.ledger_at_start = ledger, !.steps = <<>>, !.raised = ""]
    /\ UNCHANGED <<cache, ledger, readme, call, ret>>

\* csv_text, source_mode = fetch_url_b_with_cache(URL_B, cache_path=cache_path)
FetchStep ==
    /\ pc = "fetch"
    /\ \E response \in Responses :
          LET r == fetch_url_b_with_cache(cache, response)
          IN  /\ cache' = r.cache
              /\ locals' = [locals EXCEPT !.csv_text = r.csv_text,
                                          !.source_mode = r.source_mode]
              /\ pc' = IF r.ok THEN "normalize" ELSE "failed"
              /\ hist' = [hist EXCEPT
                            !.steps = Append(@, "fetch"),
                            !.raised = IF r.ok THEN "" ELSE "fetch",
                            !.response = response,
                            !.cache_pre = cache,
                            !.fetched = IF response.ok THEN Append(@, response.text) ELSE @]
    /\ UNCHANGED <<ledger, readme, args, now, call, ret>>

\* delta_frame = parse_bnetza_csv(csv_text)
NormalizeStep ==
    /\ pc = "normalize"
    /\ \E r \in parse_bnetza_csv(locals.csv_text) :
          /\ locals' = [locals EXCEPT !.delta_frame = r.value]
          /\ pc' = IF r.ok THEN "compute" ELSE "failed"
          /\ hist' = [hist EXCEPT !.steps = Append(@, "normalize"),
                                  !.raised = IF r.ok THEN "" ELSE "normalize"]
    /\ UNCHANGED <<cache, ledger, readme, args, now, call, ret>>

\* a faulty compute step: the error of build_projection_row is swallowed
\* and the run goes on to append
ComputeStep_GoesOn ==
    /\ pc = "compute"
    /\ LET r == build_projection_row(locals.delta_frame, FromTenths(args.minimum),
                                     args.lookback_days, locals.source_mode, now)
       IN  /\ locals' = [locals EXCEPT !.row = r.value]
           /\ pc' = "append"
           /\ hist' = [hist EXCEPT !.steps = Append(@, "compute"),
                                   !.raised = IF r.ok THEN "" ELSE "compute"]
    /\ UNCHANGED <<cache, ledger, readme, args, now, call, ret>>

\* row = build_projection_row(delta_frame, float(args.minimum),
\*                            int(args.lookback_days), source_mode)
ComputeStep ==
    /\ pc = "compute"
    /\ LET r == build_projection_row(locals.delta_frame, FromTenths(args.minimum),
                                     args.lookback_days, locals.source_mode, now)
       IN  /\ locals' = [locals EXCEPT !.row = r.value]
           /\ pc' = IF r.ok THEN "append" ELSE "failed"
           /\ hist' = [hist EXCEPT !.steps = Append(@, "compute"),
                                   !.raised = IF r.ok THEN "" ELSE "compute"]
    /\ UNCHANGED <<cache, ledger, readme, args, now, call, ret>>

\* append_projection_row(projections_path, row)
AppendStep ==
    /\ pc = "append"
    /\ ledger' = append_projection_row(ledger, locals.row)
    /\ pc' = "render"
    /\ hist' = [hist EXCEPT !.steps = Append(@, "append"),
                            !.appended = Append(@, locals.row),
                            !.ledger_pre = ledger]
    /\ UNCHANGED <<cache, readme, args, locals, now, call, ret>>

\* if not args.skip_readme_update: update_readme_projection(args.readme_file, row)
RenderStep ==
    /\ pc = "render"
    /\ LET r == update_readme_projection(readme, locals.row)
       IN  IF args.skip_readme_update
           THEN /\ readme' = readme
                /\ hist' = [hist EXCEPT !.readme_pre = readme, !.warning = ""]
           ELSE /\ readme' = r.file
                /\ hist' = [hist EXCEPT !.steps = Append(@, "render"),
                                        !.readme_pre = readme, !.warning = r.warning]
    /\ pc' = "summary"
    /\ UNCHANGED <<cache, ledger, args, locals, now, call, ret>>

\* print_console_summary(row), the closing prints, return 0
SummaryStep ==
    /\ pc = "summary"
    /\ pc' = "done"
    /\ UNCHANGED <<cache, ledger, readme, args, locals, now, call, ret, hist>>

Next ==
    \/ Start
    \/ FetchStep
    \/ NormalizeStep
    \/ ComputeStep
    \/ AppendStep
    \/ RenderStep
    \/ SummaryStep

Spec == Init /\ [][Next]_vars

-----------------------------------------------------------------------------
(* parse_bnetza_csv called on its own, on every CSV of a bounded family *)

MaxCsvRows == 2       \* data rows of a drawn CSV

DayCells == {DateOn(1), DateOn(2), BadCell}

\* the fill level and the daily change of a data row
ValueCells ==
    {<<Dec(900), Dec(-5)>>, <<Dec(900), NaCell>>, <<Whole(30), Dec(-5)>>,
     <<BadCell, Dec(-5)>>, <<NaCell, Dec(-5)>>}

FillHeaders == {h_Fuellstand_umlaut, h_FULLSTAND, h_fuellstand, h_FillPct}
DeltaHeaders == {h_AenderungVortag, h_ChangePrevious, h_Trend}

\* the header lines: every fill-level header with one daily-change header,
\* every daily-change header with one fill-level header
Headers ==
    {<<h_Datum, f, h_AenderungVortag>> : f \in FillHeaders}
    \cup {<<h_Datum, h_Fuellstand_umlaut, c>> : c \in DeltaHeaders}

CsvRows == {<<d, v[1], v[2]>> : d \in DayCells, v \in ValueCells}

CsvInputs ==
    {CsvText("LF", header, rows) :
        header \in Headers,
        rows \in UNION {[1..n -> CsvRows] : n \in 0..MaxCsvRows}}

Idle ==
    /\ cache = NoCache
    /\ ledger = NoFile
    /\ readme = NoReadme
    /\ args = NoArgs
    /\ locals = NoLocals
    /\ now = 0
    /\ hist = NoHist

InitParse ==
    /\ Idle
    /\ pc = "call"
    /\ call \in CsvInputs
    /\ ret = <<>>

CallParse ==
    /\ pc = "call"
    /\ ret' \in parse_bnetza_csv(call)
    /\ pc' = "returned"
    /\ UNCHANGED <<cache, ledger, readme, args, locals, now, call, hist>>

SpecParse == InitParse /\ [][CallParse]_vars

\* parse_bnetza_csv accepted the CSV and returned a series
ParseReturned == pc = "returned" /\ ret.ok

\* the rows of the input a series row can come from: row i with the values
\* the two columns convert to
ConvertedRow(csv, i) ==
    [day |-> csv.rows[i][1].v,
     fill_level_pct |-> NumericColumn([k \in 1..Len(csv.rows) |-> csv.rows[k][2]])[i],
     delta_pct_per_day |-> NumericColumn([k \in 1..Len(csv.rows) |-> csv.rows[k][3]])[i]]

\* how often a row occurs in a series
Occurrences(series, r) == Cardinality({j \in 1..Len(series) : series[j] = r})

FullstandSpellings3 == {h_Fuellstand_umlaut, h_FULLSTAND, h_fuellstand}

FullstandSpellings2 == {h_Fuellstand_umlaut, h_FULLSTAND}

\* what a caller sees of the outcomes of parsing csv
Visible(csv) ==
    {[ok |-> r.ok, error |-> r.error, value |-> r.value] : r \in parse_bnetza_csv(csv)}

\* the header of the second column resolves as the fill-level column, and
\* the outcome is the same for each of the spellings
ResolvesAlike(spellings) ==
    (pc = "returned" /\ call.header[2] \in spellings) =>
        /\ call.rows # <<>> => ret.lcl.fill_col = [found |-> TRUE, name |-> call.header[2]]
        /\ \A h \in spellings : Visible([call EXCEPT !.header[2] = h]) = Visible(call)

\* C8 as claimed: the headers "Fuellstand" with u-umlaut, "FULLSTAND" and
\* "fuellstand" all resolve as the fill-level column, with the same result
C8_ThreeSpellingsResolve == ResolvesAlike(FullstandSpellings3)

\* C8 as amended: the header with u-umlaut and "FULLSTAND" resolve as the
\* fill-level column, with the same result; "fuellstand" does not resolve,
\* and with no other fill-level column the call raises
C8_CaseAndDiacriticsResolve ==
    /\ ResolvesAlike(FullstandSpellings2)
    /\ (pc = "returned" /\ call.header[2] = h_fuellstand /\ call.rows # <<>>) =>
          /\ ~ret.lcl.fill_col.found
          /\ ~ret.ok
          /\ ret.error = ColumnsNotFound

\* C8 witness: a CSV with the header "FULLSTAND" parsed to a series with a row
C8_UpperCaseParsed ==
    /\ ParseReturned
    /\ call.header[2] = h_FULLSTAND
    /\ Len(ret.value) >= 1

-----------------------------------------------------------------------------
(* build_projection_row called on its own, on every series of a bounded    *)
(* family: dates ascending, every fill level present, as parse_bnetza_csv  *)
(* returns them                                                            *)

MaxFrame == 3       \* rows of a drawn series

FillLevels == {Num(FromTenths(300)), Num(FromTenths(900))}
DailyChanges == {NaN, Num(FromTenths(-1)), Num(FromTenths(2)), Num(0)}
MinimumPcts == {FromTenths(200), FromTenths(950)}
LookbackDays == {-1, 0, 1, 2, 30}

Frames ==
    UNION {[1..n -> FillLevels \X DailyChanges] : n \in 0..MaxFrame}

AsFrame(f) ==
    [i \in 1..Len(f) |->
        [day |-> i, fill_level_pct |-> f[i][1], delta_pct_per_day |-> f[i][2]]]

InitProjection ==
    /\ Idle
    /\ pc = "call"
    /\ \E f \in Frames, m \in MinimumPcts, n \in LookbackDays :
          call = [delta_frame |-> AsFrame(f), minimum_pct |-> m, lookback_days |-> n]
    /\ ret = <<>>

CallProjection ==
    /\ pc = "call"
    /\ ret' = build_projection_row(call.delta_frame, call.minimum_pct,
                                   call.lookback_days, "network", now)
    /\ pc' = "returned"
    /\ UNCHANGED <<cache, ledger, readme, args, locals, now, call, hist>>

SpecProjection == InitProjection /\ [][CallProjection]_vars

\* build_projection_row returned a record
RowBuilt == pc = "returned" /\ ret.ok

\* C5: in a record build_projection_row returns, a scenario whose rate is
\* >= 0 has an empty target date and empty days-to-min; a scenario whose
\* rate is negative has both, with days-to-min >= 0, and with a current
\* level below the minimum days-to-min is 0 and the target date is the
\* anchor date
C5_TargetAbsentOrDaysNonNegative ==
    RowBuilt =>
        \A i \in 1..Len(SCENARIOS) :
            LET rate == ret.lcl.scenario_rates[i]
                target == Get(ret.value, SCENARIOS[i] \o "_target_date")
                days == Get(ret.value, SCENARIOS[i] \o "_days_to_min")
            IN  IF rate >= 0
                THEN target = Empty /\ days = Empty
                ELSE /\ target.k = "date"
                     /\ days.k = "float"
                     /\ days.v >= 0
                     /\ ret.lcl.current_level < call.minimum_pct =>
                            days.v = 0 /\ target.v = ret.lcl.last_date

\* C5 witness: a record built with the current level below the minimum, one
\* scenario with a negative rate and one with a rate >= 0
C5_BelowMinimumBuilt ==
    /\ RowBuilt
    /\ ret.lcl.current_level < call.minimum_pct
    /\ ret.lcl.scenario_rates[5] < 0
    /\ ret.lcl.scenario_rates[1] >= 0
    /\ Get(ret.value, SCENARIOS[5] \o "_days_to_min") = Rounded(0, 3)

\* C6: in a record build_projection_row returns, rate_min_20 <= rate_min <=
\* rate_avg <= rate_max <= rate_max_20, rate_min_20 < rate_min when
\* rate_min < 0 and rate_max_20 > rate_max when rate_max > 0, and the
\* scenarios carry rate_max_20, rate_max, rate_avg, rate_min, rate_min_20
\* in the order of SCENARIOS
C6_RatesOrdered ==
    RowBuilt =>
        LET rate_max_20 == ret.lcl.scenario_rates[1]
            rate_max == ret.lcl.scenario_rates[2]
            rate_avg == ret.lcl.scenario_rates[3]
            rate_min == ret.lcl.scenario_rates[4]
            rate_min_20 == ret.lcl.scenario_rates[5]
        IN  /\ rate_min_20 <= rate_min
            /\ rate_min <= rate_avg
            /\ rate_avg <= rate_max
            /\ rate_max <= rate_max_20
            /\ rate_min < 0 => rate_min_20 < rate_min
            /\ rate_max > 0 => rate_max_20 > rate_max
            /\ Get(ret.value, "rate_min_pct_per_day") = Rounded(rate_min, 6)
            /\ Get(ret.value, "rate_max_pct_per_day") = Rounded(rate_max, 6)
            /\ \A i \in 1..Len(SCENARIOS) :
                  Get(ret.value, SCENARIOS[i] \o "_rate_pct_per_day") =
                  Rounded(ret.lcl.scenario_rates[i], 6)

\* the trailing min(n, L) rows of a series of L rows, none when that is
\* not positive
TrailingRows(frame, n) ==
    LET L == Len(frame)
        m == IF n < L THEN n ELSE L
    IN  IF m <= 0 THEN <<>> ELSE SubSeq(frame, L - m + 1, L)

\* C10: for a non-empty series and any integer lookback_days the window is
\* the trailing min(lookback_days, L) rows, never more than lookback_days
\* rows; an empty window raises the empty-window error, and otherwise the
\* anchor date and the current level are those of the last row of the series
C10_WindowIsTrailingRows ==
    (pc = "returned" /\ call.delta_frame # <<>>) =>
        LET want == TrailingRows(call.delta_frame, call.lookback_days)
            final == call.delta_frame[Len(call.delta_frame)]
        IN  IF want = <<>>
            THEN /\ ~ret.ok
                 /\ ret.error = "No rows available in requested lookback window."
            ELSE /\ ret.lcl.windowed = want
                 /\ Len(ret.lcl.windowed) <= call.lookback_days
                 /\ ret.ok => /\ ret.lcl.last_date = final.day
                              /\ ret.lcl.current_level = final.fill_level_pct.v

-----------------------------------------------------------------------------
(* Properties of the runs of main *)

MainSteps == <<"fetch", "normalize", "compute", "append", "render">>

IsPrefix(s, t) == Len(s) <= Len(t) /\ \A i \in 1..Len(s) : s[i] = t[i]

\* C1: the steps a run has entered are an initial part of fetch, normalize,
\* compute, append, render in that order; when fetch, normalize or compute
\* raised, that step is the last one entered, the run has ended, and the
\* ledger file is as it was when the run started
C1_StepsInOrderAbortKeepsLedger ==
    /\ IsPrefix(hist.steps, MainSteps)
    /\ pc = "failed" <=> hist.raised # ""
    /\ hist.raised # "" =>
          /\ hist.raised \in {"fetch", "normalize", "compute"}
          /\ hist.steps[Len(hist.steps)] = hist.raised
          /\ ledger = hist.ledger_at_start

\* C1 witness: compute raised in a run that started with a row in the ledger
C1_ComputeRaisedWithLedger ==
    /\ pc = "failed"
    /\ hist.raised = "compute"
    /\ Len(ledger.rows) = 1

\* the value row i of a ledger file has in the column of that name
LedgerValue(file, i, name) ==
    file.rows[i][CHOOSE j \in 1..Len(file.columns) : file.columns[j] = name]

\* row i of the ledger file holds the record, field by field
HoldsRecord(file, i, record) ==
    \A f \in 1..Len(record) : LedgerValue(file, i, record[f].name) = record[f].cell

LastBody == hist.fetched[Len(hist.fetched)]

\* what a fetch leaves, but for the text a cache fallback returns
FetchOutcome ==
    IF hist.response.ok
    THEN /\ locals.csv_text = hist.response.text
         /\ locals.source_mode = "network"
         /\ cache = WriteText(hist.response.text)
    ELSE IF hist.cache_pre.exists
         THEN /\ locals.source_mode = "cache"
              /\ cache = hist.cache_pre
              /\ cache.text = LastBody
         ELSE /\ pc = "failed"
              /\ hist.raised = "fetch"
              /\ locals.csv_text = NoText
              /\ cache = hist.cache_pre

-----------------------------------------------------------------------------
(* append_projection_row called on its own, with records of any fields *)

MaxAppends == 3       \* calls per behaviour

FieldNames == {"a", "b"}

FieldCells == {IntCell(30), Empty}

\* the records over one or two of the fields, in either order
Records ==
    {<<Item(f, c)>> : f \in FieldNames, c \in FieldCells}
    \cup {r \in {<<Item(f, c), Item(g, d)>> :
                      f \in FieldNames, g \in FieldNames,
                      c \in FieldCells, d \in FieldCells} :
             r[1].name # r[2].name}

InitAppend ==
    /\ cache = NoCache
    /\ ledger \in {NoFile, EmptyFile}
    /\ readme = NoReadme
    /\ pc = "call"
    /\ args = NoArgs
    /\ locals = NoLocals
    /\ now = 0
    /\ call = <<>>
    /\ ret = <<>>
    /\ hist = NoHist

CallAppend ==
    /\ Len(hist.appended) < MaxAppends
    /\ \E row \in Records :
          /\ call' = row
          /\ ledger' = append_projection_row(ledger, row)
          /\ hist' = [hist EXCEPT !.appended = Append(@, row), !.ledger_pre = ledger]
    /\ pc' = "returned"
    /\ UNCHANGED <<cache, readme, args, locals, now, ret>>

SpecAppend == InitAppend /\ [][CallAppend]_vars

\* the fields of all records appended so far
FieldsAppended == UNION {KeySet(hist.appended[i]) : i \in 1..Len(hist.appended)}

\* C3: after any calls of append_projection_row the columns of the ledger
\* are the fields of all records appended, each once; every row has a value
\* for each column, and the empty value for a column its record did not have
C3_ColumnsAreUnionBlanksFilled ==
    Len(hist.appended) > 0 =>
        /\ {ledger.columns[j] : j \in 1..Len(ledger.columns)} = FieldsAppended
        /\ Len(ledger.columns) = Cardinality(FieldsAppended)
        /\ Len(ledger.rows) = Len(hist.appended)
        /\ \A i \in 1..Len(ledger.rows) :
              /\ Len(ledger.rows[i]) = Len(ledger.columns)
              /\ \A j \in 1..Len(ledger.columns) :
                    ledger.columns[j] \notin KeySet(hist.appended[i]) =>
                        ledger.rows[i][j] = Empty

\* C3 witness: an older row lacks a column the second record brought, and
\* the latest record lacks a column the older rows brought
C3_ColumnsGrewBothWays ==
    /\ Len(hist.appended) = 3
    /\ KeySet(hist.appended[1]) = {"a"}
    /\ KeySet(hist.appended[2]) = {"a", "b"}
    /\ KeySet(hist.appended[3]) = {"b"}
    /\ hist.appended[1][1].cell = IntCell(30)
    /\ Len(ledger.columns) = 2

-----------------------------------------------------------------------------
(* update_readme_projection as main calls it, on every document of a       *)
(* bounded family                                                          *)

MaxReadmeLines == 5   \* lines of a drawn document

ReadmeLines ==
    {PROJECTION_SECTION_HEADING, Padded(PROJECTION_SECTION_HEADING.s),
     FenceText, Fence, Line("Quellen")}

ReadmeDocs ==
    {NoReadme} \cup
    {TextFileEol(eol, lines) :
        eol \in {"LF", "CRLF"},
        lines \in UNION {[1..n -> ReadmeLines] : n \in 0..MaxReadmeLines}}

\* records build_projection_row returns: one with every rate negative, one
\* with no rate negative
SampleRows ==
    {build_projection_row(
        <<[day |-> 1, fill_level_pct |-> Num(FromTenths(300)),
           delta_pct_per_day |-> Num(FromTenths(t))]>>,
        FromTenths(200), 30, "network", 1).value : t \in {-1, 2}}

InitReadme ==
    /\ cache = NoCache
    /\ ledger = NoFile
    /\ readme \in ReadmeDocs
    /\ pc = "render"
    /\ args = [minimum |-> 200, lookback_days |-> 30, skip_readme_update |-> FALSE]
    /\ \E row \in SampleRows : locals = [NoLocals EXCEPT !.row = row]
    /\ now = 1
    /\ call = <<>>
    /\ ret = <<>>
    /\ hist = NoHist

SpecReadme == InitReadme /\ [][RenderStep \/ SummaryStep]_vars

\* the lines of a document that read as the text
LinesReading(lines, what) == {i \in 1..Len(lines) : Strip(lines[i]) = what}

Least(S) == CHOOSE i \in S : \A j \in S : i <= j

\* the opening fences that come after a heading line
OpeningFences(lines) ==
    {s \in LinesReading(lines, FenceText) :
        \E h \in LinesReading(lines, PROJECTION_SECTION_HEADING) : h < s}

\* the closing fences that come after the first of those opening fences
ClosingFences(lines) ==
    IF OpeningFences(lines) = {} THEN {}
    ELSE {e \in LinesReading(lines, Fence) : e > Least(OpeningFences(lines))}

\* C9: after the README step, a document with the heading, an opening fence
\* after it and a closing fence after that has the lines from the first
\* such opening fence to the first closing fence after it replaced by the new
\* block, the lines before and after as they were; any other document, or
\* none, is left as it was with a warning; either way the run goes on to
\* the console summary
C9_OnlyBlockReplaced ==
    pc \in {"summary", "done"} =>
        LET old == hist.readme_pre
        IN  IF old.exists /\ ClosingFences(old.lines) # {}
            THEN LET s == Least(OpeningFences(old.lines))
                     e == Least(ClosingFences(old.lines))
                     grown == Len(readme.lines) - Len(old.lines)
                 IN  /\ hist.warning = ""
                     /\ SubSeq(readme.lines, 1, s - 1) = SubSeq(old.lines, 1, s - 1)
                     /\ SubSeq(readme.lines, s, e + grown) =
                           build_projection_block_lines(locals.row)
                     /\ SubSeq(readme.lines, e + grown + 1, Len(readme.lines)) =
                           SubSeq(old.lines, e + 1, Len(old.lines))
            ELSE /\ readme = old
                 /\ hist.warning # ""

\* C9 witness: a document with a line before the heading and lines after the
\* closing fence was rewritten, and the run went on
C9_BlockReplacedInside ==
    /\ pc = "done"
    /\ hist.warning = ""
    /\ Len(hist.readme_pre.lines) = 5
    /\ hist.readme_pre.lines[1] = Line("Quellen")
    /\ hist.readme_pre.lines[5] = Fence
    /\ readme.lines[Len(readme.lines)] = Fence
    /\ readme.lines # hist.readme_pre.lines

=============================================================================
